---- MODULE Spec2Model ----
(***************************************************************************)
(* WiggleBot v0.3 (src/main_v3.py): the per-chat session store, the queue  *)
(* builder, the pointer advancer, the remind_loop timers and the webhook   *)
(* handlers, as coroutines of one asyncio event loop.  One action is one   *)
(* synchronous stretch of a coroutine: from the await it resumes from to   *)
(* the await it suspends at next.                                          *)
(***************************************************************************)
EXTENDS Naturals, Sequences, FiniteSets, TLC

VARIABLES
  users,      \* chat_id -> session {tasks, pointer, reminder} (has = key present)
  timers,     \* every remind_loop task created so far; a handle is its index
  handlers,   \* webhook handlers in flight: event number -> coroutine frame
  nEvents,    \* webhook events taken in so far
  nextId,     \* next fresh task id (uuid4 never repeats)
  inflight,   \* llm_sema slots taken
  waiters,    \* coroutines suspended in llm_sema.acquire(), in arrival order
  sent,       \* the message the last step delivered through bot.send_message
  resp,       \* the outcome of the webhook handler the last step ended
  prevDone,   \* the done signal handled last, alone and with nothing after it
  raw,        \* the text handed to the queue builder (SpecQB)
  built,      \* whether the queue builder has run on raw (SpecQB)
  keys,       \* the keys of users in insertion order, as users.keys() yields them
  tick,       \* the morning_prompt job: its position in the loop over users.keys()
  v2          \* the state of WiggleBot v0.2 (src/main_v2.py), see NoV2

vars == <<users, timers, handlers, nEvents, nextId, inflight, waiters, sent,
          resp, prevDone, raw, built, keys, tick, v2>>

\* the state of WiggleBot v0.3
v3vars == <<users, timers, handlers, nEvents, nextId, inflight, waiters, sent,
            resp, prevDone, raw, built, keys, tick>>

-----------------------------------------------------------------------------
(* Bounds of the model.                                                    *)

\* webhook events taken in during one run
MaxEvents == 3
\* length of the raw text handed to the queue builder in SpecQB
MaxRawLen == 9
\* goal lists submitted during one run of SpecPtr
MaxSubmits == 2
\* button presses taken in during one run of SpecSema
MaxCalls == 4
\* webhook events taken in during one run of SpecV2
MaxMessages == 4

(* Program constants.                                                      *)

\* asyncio.Semaphore(3)
LlmSlots == 3

\* the chats webhook events come from
Chats == {1}

\* the chats that exist: users has no entry for a chat until its first message
AllChats == {1, 2, 3}

None == 0

-----------------------------------------------------------------------------
(* Text: a str is a sequence of characters.                                *)

NL == "\n"
SP == " "

IsSpace(ch) == ch \in {SP, NL}

RECURSIVE LStrip(_)
LStrip(s) ==
  IF s # <<>> /\ IsSpace(Head(s)) THEN LStrip(Tail(s)) ELSE s

RECURSIVE RStrip(_)
RStrip(s) ==
  IF s # <<>> /\ IsSpace(s[Len(s)]) THEN RStrip(SubSeq(s, 1, Len(s) - 1)) ELSE s

\* a text taken as it comes
Unstripped(s) == s

\* str.strip()
Strip(s) == RStrip(LStrip(s))

LowerChar(ch) ==
  CASE ch = "S" -> "s"
    [] ch = "T" -> "t"
    [] ch = "A" -> "a"
    [] ch = "R" -> "r"
    [] OTHER -> ch

\* str.lower()
Lower(s) == [k \in 1..Len(s) |-> LowerChar(s[k])]

\* position of the first line break of s, 0 when it has none
RECURSIVE FirstNL(_, _)
FirstNL(s, k) ==
  IF k > Len(s) THEN 0 ELSE IF s[k] = NL THEN k ELSE FirstNL(s, k + 1)

\* str.splitlines(): a trailing line break opens no empty last line
RECURSIVE SplitLines(_)
SplitLines(s) ==
  IF s = <<>> THEN <<>>
  ELSE LET k == FirstNL(s, 1) IN
       IF k = 0 THEN <<s>>
       ELSE <<SubSeq(s, 1, k - 1)>> \o SplitLines(SubSeq(s, k + 1, Len(s)))

\* Python slice xs[a:b] with 0 <= a <= b (0-based, b exclusive, clipped)
Slice(xs, a, b) ==
  LET hi == IF b < Len(xs) THEN b ELSE Len(xs) IN
  IF a >= hi THEN <<>> ELSE SubSeq(xs, a + 1, hi)

\* [l.strip() for l in raw.splitlines() if l.strip()]
RECURSIVE StripNonEmpty(_)
StripNonEmpty(ls) ==
  IF ls = <<>> THEN <<>>
  ELSE LET l == Strip(Head(ls)) IN
       IF l = <<>> THEN StripNonEmpty(Tail(ls)) ELSE <<l>> \o StripNonEmpty(Tail(ls))

\* is_morning_input
IsMorningInput(txt) == \E k \in 1..Len(txt) : txt[k] = NL

-----------------------------------------------------------------------------
(* Session store.                                                          *)

\* class Task; ids are handed out from nextId
Task(id, text, prio) == [id |-> id, text |-> text, prio |-> prio, done |-> FALSE]

\* users.setdefault(chat_id, {"tasks": [], "pointer": 0, "reminder": None})
NewSession == [has |-> TRUE, tasks |-> <<>>, pointer |-> 0, reminder |-> None]

NoSession == [has |-> FALSE, tasks |-> <<>>, pointer |-> 0, reminder |-> None]

\* the Task objects a list of stripped lines becomes, ids from first on
MkTasks(ls, prio, first) ==
  [k \in 1..Len(ls) |-> Task(first + k - 1, ls[k], prio)]

\* mids = lines[1:4]
MidLinesOff(lines) == Slice(lines, 1, 3)
MidLines(lines) == Slice(lines, 1, 4)

\* the queue add_tasks_from_morning builds from raw text: top, mids, extras
BuildQueue(txt, first) ==
  LET lines  == StripNonEmpty(SplitLines(txt))
      top    == Slice(lines, 0, 1)
      mids   == MidLines(lines)
      extras == Slice(lines, 1 + Len(mids), Len(lines))
  IN  MkTasks(top, "top", first)
        \o MkTasks(mids, "mid", first + Len(top))
        \o MkTasks(extras, "extra", first + Len(top) + Len(mids))

-----------------------------------------------------------------------------
(* Session operations.                                                     *)

\* position (1-based) of the task with id tid in a queue, 0 when absent
RECURSIVE IndexOf(_, _, _)
IndexOf(tasks, tid, k) ==
  IF k > Len(tasks) THEN 0
  ELSE IF tasks[k].id = tid THEN k ELSE IndexOf(tasks, tid, k + 1)

HasTask(u, tid) == IndexOf(u.tasks, tid, 1) # 0

\* the while loop of next_task: the pointer moves past done tasks
SkipDoneStuck(tasks, p) == p
RECURSIVE SkipDone(_, _)
SkipDone(tasks, p) ==
  IF p < Len(tasks) /\ tasks[p + 1].done THEN SkipDone(tasks, p + 1) ELSE p

\* next_task: the id of the task it returns (None when it returns None)
NextTaskId(u) ==
  LET p == SkipDone(u.tasks, u.pointer) IN
  IF p < Len(u.tasks) THEN u.tasks[p + 1].id ELSE None

\* the active task: the first not-done task in queue order
RECURSIVE FirstOpen(_, _)
FirstOpen(tasks, k) ==
  IF k > Len(tasks) THEN None
  ELSE IF ~tasks[k].done THEN tasks[k].id ELSE FirstOpen(tasks, k + 1)

ActiveId(u) == FirstOpen(u.tasks, 1)

-----------------------------------------------------------------------------
(* remind_loop tasks and llm_sema.                                         *)

Awaiting == {"sleep", "sema", "gpt", "send"}

\* a timer that has been created and has neither been cancelled nor ended
Live(t) == t.pc \in Awaiting /\ ~t.cancel

LiveTimers(c) == {i \in DOMAIN timers : timers[i].chat = c /\ Live(timers[i])}

\* asyncio.Task.cancelled(): true once the CancelledError has ended the task
Cancelled(ts, i) == ts[i].pc = "cancelled"

\* a cancel that also marks a task that has ended
CancelTaskAny(ts, i) ==
  IF i # None THEN [ts EXCEPT ![i].cancel = TRUE] ELSE ts

\* asyncio.Task.cancel(): a request; nothing happens to a task that has ended
CancelTask(ts, i) ==
  IF i # None /\ ts[i].pc \in Awaiting THEN [ts EXCEPT ![i].cancel = TRUE] ELSE ts

TRef(i) == [k |-> "t", i |-> i]
HRef(id) == [k |-> "h", i |-> id]

\* cancelling a task suspended in llm_sema.acquire() cancels its waiter future
DropWaiter(ws, ts, i) ==
  IF i # None /\ ts[i].pc = "sema" THEN SelectSeq(ws, LAMBDA w : w # TRef(i)) ELSE ws

\* the pc a coroutine suspended in llm_sema.acquire() has once it holds a slot
GptPc(pc) ==
  CASE pc = "ack_sema"   -> "ack_gpt"
    [] pc = "coach_sema" -> "coach_gpt"
    [] pc = "stuck_sema" -> "stuck_gpt"
    [] pc = "sema"       -> "gpt"
    [] OTHER             -> pc

\* a gate that lets one request more through
OneTooMany == inflight < LlmSlots + 1

\* async with llm_sema, entering: a free slot is taken without suspending
CanAcquire == inflight < LlmSlots

\* async with llm_sema, leaving: the slot goes to the first waiter, if any
RelInflight == IF waiters = <<>> THEN inflight - 1 ELSE inflight
RelWaiters == IF waiters = <<>> THEN waiters ELSE Tail(waiters)
WakeH(hs) ==
  IF waiters # <<>> /\ Head(waiters).k = "h"
  THEN [hs EXCEPT ![Head(waiters).i].pc = GptPc(@)] ELSE hs
WakeT(ts) ==
  IF waiters # <<>> /\ Head(waiters).k = "t"
  THEN [ts EXCEPT ![Head(waiters).i].pc = GptPc(@)] ELSE ts

-----------------------------------------------------------------------------
(* Messages and handler outcomes.                                          *)

NoMsg == [chat |-> None, kind |-> "none", tid |-> None]
Msg(c, kind, tid) == [chat |-> c, kind |-> kind, tid |-> tid]

NoPrev == [chat |-> None, tid |-> None]

NoResp ==
  [ev |-> "none", chat |-> None, tid |-> None, status |-> "none", cause |-> "none",
   wasActive |-> FALSE, dup |-> FALSE, alone |-> FALSE]

\* what a webhook handler ends with: {"ok": True}, or the exception it raised
Outcome(h, status, cause) ==
  [ev |-> h.ev, chat |-> h.chat, tid |-> h.tid, status |-> status, cause |-> cause,
   wasActive |-> h.wasActive, dup |-> h.dup, alone |-> h.alone]

\* the frame of a handler at its first await
Frame(ev, c, tid, pc) ==
  [ev |-> ev, chat |-> c, tid |-> tid, pc |-> pc, task |-> None,
   wasActive |-> FALSE,
   dup |-> (ev = "done" /\ DOMAIN handlers = {} /\ prevDone = [chat |-> c, tid |-> tid]),
   alone |-> (DOMAIN handlers = {})]

\* the handlers already in flight when another event comes in
Joined == [id \in DOMAIN handlers |-> [handlers[id] EXCEPT !.alone = FALSE]]

Without(hs, id) == [j \in DOMAIN hs \ {id} |-> hs[j]]

\* the done signal a handler leaves behind when it ends
Prev(h, status) ==
  IF h.ev = "done" /\ status = "ok" /\ h.alone
  THEN [chat |-> h.chat, tid |-> h.tid] ELSE NoPrev

-----------------------------------------------------------------------------
(* Initial state: nothing in users, no coroutine, all slots free.          *)

\* main_v2 at start: tasks (task_id -> chat_id, done; a task id is its place
\* in the dict), active_reminders (the task ids that have an entry), loops
\* (the reminder_loop task of each task id), handlers (the webhook handlers
\* in flight), n (the events taken in), sent (the message of the last step)
NoV2 ==
  [tasks |-> <<>>, active_reminders |-> {}, loops |-> <<>>, handlers |-> <<>>,
   n |-> 0, sent |-> NoMsg]

\* morning_prompt has not run: size is len(users) when the loop's iterator was
\* made, pos the number of keys it has yielded, prompted the chats sent to
NoTick == [pc |-> "idle", size |-> 0, pos |-> 0, prompted |-> {}]

Init ==
  /\ users = [c \in AllChats |-> NoSession]
  /\ timers = <<>>
  /\ handlers = <<>>
  /\ nEvents = 0
  /\ nextId = 1
  /\ inflight = 0
  /\ waiters = <<>>
  /\ sent = NoMsg
  /\ resp = NoResp
  /\ prevDone = NoPrev
  /\ raw = <<>>
  /\ built = FALSE
  /\ keys = <<>>
  /\ tick = NoTick
  /\ v2 = NoV2

\* the message texts webhook events carry
MsgTexts ==
  { <<"/", "S", "t", "a", "r", "t", NL>>,
    <<"h", "i">>,
    <<SP, "a", NL, SP, NL, "b", NL>> }

-----------------------------------------------------------------------------
(* add_tasks_from_morning and mark_done.                                   *)

\* a queue replacement that leaves the pointer where it was
AddTasksKeepPointer(c, txt) ==
  LET u == IF users[c].has THEN users[c] ELSE NewSession
      q == BuildQueue(txt, nextId)
  IN  /\ users' = [users EXCEPT ![c] = [u EXCEPT !.tasks = q]]
      /\ nextId' = nextId + Len(q)
      /\ timers' = IF u.reminder # None THEN CancelTask(timers, u.reminder) ELSE timers

\* add_tasks_from_morning(chat_id, raw): the queue is replaced, the pointer
\* reset and the stored reminder handle cancelled
AddTasksFromMorning(c, txt) ==
  LET u == IF users[c].has THEN users[c] ELSE NewSession
      q == BuildQueue(txt, nextId)
  IN  /\ users' = [users EXCEPT ![c] = [u EXCEPT !.tasks = q, !.pointer = 0]]
      /\ nextId' = nextId + Len(q)
      /\ timers' = IF u.reminder # None THEN CancelTask(timers, u.reminder) ELSE timers

\* mark_done(chat_id, tid) on a task get_task finds at position k
MarkDone(c, k) ==
  LET rem == users[c].reminder IN
  /\ users' = [users EXCEPT ![c].tasks[k].done = TRUE]
  /\ timers' = IF rem # None /\ ~Cancelled(timers, rem)
               THEN CancelTask(timers, rem) ELSE timers

-----------------------------------------------------------------------------
(* Webhook events: the handler up to its first await.                      *)

Intake ==
  /\ nEvents < MaxEvents
  /\ nEvents' = nEvents + 1
  /\ prevDone' = NoPrev
  /\ sent' = NoMsg

\* a callback payload without ':' : action, tid = data.split(":", 1) raises
WebhookBadPayload(c) ==
  /\ Intake
  /\ handlers' = Joined
  /\ resp' = [NoResp EXCEPT !.ev = "callback", !.chat = c, !.status = "error",
                            !.cause = "payload"]
  /\ UNCHANGED <<users, timers, nextId, inflight, waiters, raw, built, keys, tick, v2>>

\* a callback button: suspended at await bot.answer_callback_query
WebhookCallback(c, action, tid) ==
  /\ Intake
  /\ handlers' = ((nEvents + 1) :> Frame(action, c, tid, "answer")) @@ Joined
  /\ resp' = NoResp
  /\ UNCHANGED <<users, timers, nextId, inflight, waiters, raw, built, keys, tick, v2>>

\* an update with neither a callback nor a message text
WebhookNoText(c) ==
  /\ Intake
  /\ handlers' = Joined
  /\ resp' = [NoResp EXCEPT !.ev = "notext", !.chat = c, !.status = "ok"]
  /\ UNCHANGED <<users, timers, nextId, inflight, waiters, raw, built, keys, tick, v2>>

\* users.setdefault(chat_id, ...): a new key goes to the end of the dict
Keys(c) == IF users[c].has THEN keys ELSE Append(keys, c)

SetDefault(c) == [users EXCEPT ![c] = IF @.has THEN @ ELSE NewSession]

\* "/start": suspended at the greeting's send
WebhookStart(c, m) ==
  /\ Lower(Strip(m)) = <<"/", "s", "t", "a", "r", "t">>
  /\ Intake
  /\ users' = SetDefault(c)
  /\ handlers' = ((nEvents + 1) :> Frame("start", c, None, "send_start")) @@ Joined
  /\ resp' = NoResp
  /\ keys' = Keys(c)
  /\ UNCHANGED <<timers, nextId, inflight, waiters, raw, built, tick, v2>>

\* a goal list: add_tasks_from_morning, then suspended in gpt("ack", ...)
WebhookGoals(c, m) ==
  LET text == Strip(m)
      id   == nEvents + 1
      ws   == DropWaiter(waiters, timers, users[c].reminder)
  IN  /\ Lower(text) # <<"/", "s", "t", "a", "r", "t">>
      /\ IsMorningInput(text)
      /\ Intake
      /\ AddTasksFromMorning(c, text)
      /\ waiters' = IF CanAcquire THEN ws ELSE Append(ws, HRef(id))
      /\ handlers' = (id :> Frame("goals", c, None,
                                  IF CanAcquire THEN "ack_gpt" ELSE "ack_sema"))
                       @@ Joined
      /\ inflight' = IF CanAcquire THEN inflight + 1 ELSE inflight
      /\ resp' = NoResp
      /\ keys' = Keys(c)
      /\ UNCHANGED <<raw, built, tick, v2>>

-----------------------------------------------------------------------------
(* Webhook handlers: one action per resumption.                            *)

\* the handler returns {"ok": True} or ends with the exception it raised
Finish(id, status, cause) ==
  /\ resp' = Outcome(handlers[id], status, cause)
  /\ prevDone' = Prev(handlers[id], status)

\* any other text: suspended at the fallback hint's send
WebhookOther(c, m) ==
  LET text == Strip(m) IN
  /\ Lower(text) # <<"/", "s", "t", "a", "r", "t">>
  /\ ~IsMorningInput(text)
  /\ Intake
  /\ users' = SetDefault(c)
  /\ handlers' = ((nEvents + 1) :> Frame("other", c, None, "send_fallback")) @@ Joined
  /\ resp' = NoResp
  /\ keys' = Keys(c)
  /\ UNCHANGED <<timers, nextId, inflight, waiters, raw, built, tick, v2>>

\* an action other than done and stuck: nothing to do
HAnswerNoop(id) ==
  /\ handlers[id].pc = "answer"
  /\ handlers[id].ev \notin {"done", "stuck"}
  /\ Finish(id, "ok", "none")
  /\ handlers' = Without(handlers, id)
  /\ sent' = NoMsg
  /\ UNCHANGED <<users, timers, nEvents, nextId, inflight, waiters, raw, built, keys, tick, v2>>

\* get_task: users[chat_id] raises KeyError for a chat without a session
HNoSession(id) ==
  LET h == handlers[id] IN
  /\ h.pc = "answer"
  /\ h.ev \in {"done", "stuck"}
  /\ ~users[h.chat].has
  /\ Finish(id, "error", "no_session")
  /\ handlers' = Without(handlers, id)
  /\ sent' = NoMsg
  /\ UNCHANGED <<users, timers, nEvents, nextId, inflight, waiters, raw, built, keys, tick, v2>>

\* get_task: next(...) raises StopIteration when no task has the id
HNoTask(id) ==
  LET h == handlers[id] IN
  /\ h.pc = "answer"
  /\ h.ev \in {"done", "stuck"}
  /\ users[h.chat].has
  /\ ~HasTask(users[h.chat], h.tid)
  /\ Finish(id, "error", "no_task")
  /\ handlers' = Without(handlers, id)
  /\ sent' = NoMsg
  /\ UNCHANGED <<users, timers, nEvents, nextId, inflight, waiters, raw, built, keys, tick, v2>>

\* action == "done": mark_done, then suspended at the "Task marked done!" send
HMarkDone(id) ==
  LET h == handlers[id]
      u == users[h.chat]
  IN  /\ h.pc = "answer"
      /\ h.ev = "done"
      /\ u.has
      /\ HasTask(u, h.tid)
      /\ MarkDone(h.chat, IndexOf(u.tasks, h.tid, 1))
      /\ waiters' = DropWaiter(waiters, timers, u.reminder)
      /\ handlers' = [handlers EXCEPT ![id].pc = "send_marked",
                                      ![id].wasActive = (ActiveId(u) = h.tid)]
      /\ sent' = NoMsg
      /\ resp' = NoResp
      /\ UNCHANGED <<nEvents, nextId, inflight, prevDone, raw, built, keys, tick, v2>>

\* a stuck branch that cancels the stored reminder, as the done branch does
HStuckCancels(id) ==
  LET h == handlers[id]
      u == users[h.chat]
  IN  /\ h.pc = "answer"
      /\ h.ev = "stuck"
      /\ u.has
      /\ HasTask(u, h.tid)
      /\ handlers' = [handlers EXCEPT
                        ![id].pc = IF CanAcquire THEN "stuck_gpt" ELSE "stuck_sema",
                        ![id].task = h.tid]
      /\ timers' = CancelTask(timers, u.reminder)
      /\ inflight' = IF CanAcquire THEN inflight + 1 ELSE inflight
      /\ waiters' = IF CanAcquire THEN waiters ELSE Append(waiters, HRef(id))
      /\ sent' = NoMsg
      /\ resp' = NoResp
      /\ UNCHANGED <<users, nEvents, nextId, prevDone, raw, built, keys, tick, v2>>

\* action == "stuck": get_task, then suspended in gpt("stuck", ...)
HStuck(id) ==
  LET h == handlers[id]
      u == users[h.chat]
  IN  /\ h.pc = "answer"
      /\ h.ev = "stuck"
      /\ u.has
      /\ HasTask(u, h.tid)
      /\ handlers' = [handlers EXCEPT
                        ![id].pc = IF CanAcquire THEN "stuck_gpt" ELSE "stuck_sema",
                        ![id].task = h.tid]
      /\ inflight' = IF CanAcquire THEN inflight + 1 ELSE inflight
      /\ waiters' = IF CanAcquire THEN waiters ELSE Append(waiters, HRef(id))
      /\ sent' = NoMsg
      /\ resp' = NoResp
      /\ UNCHANGED <<users, timers, nEvents, nextId, prevDone, raw, built, keys, tick, v2>>

\* the message a send that start_focus is entered after delivers
BeforeFocus(pc) == IF pc = "send_marked" THEN "marked" ELSE "ack"

\* start_focus when next_task returns None: suspended at the "list complete" send
HFocusNone(id) ==
  LET h == handlers[id]
      u == users[h.chat]
  IN  /\ h.pc \in {"send_marked", "send_ack"}
      /\ NextTaskId(u) = None
      /\ users' = [users EXCEPT ![h.chat].pointer = SkipDone(u.tasks, u.pointer)]
      /\ handlers' = [handlers EXCEPT ![id].pc = "send_complete"]
      /\ sent' = Msg(h.chat, BeforeFocus(h.pc), None)
      /\ resp' = NoResp
      /\ UNCHANGED <<timers, nEvents, nextId, inflight, waiters, prevDone, raw, built, keys, tick, v2>>

\* start_focus when next_task returns a task: suspended in gpt("coach", ...)
HFocusTask(id) ==
  LET h == handlers[id]
      u == users[h.chat]
  IN  /\ h.pc \in {"send_marked", "send_ack"}
      /\ NextTaskId(u) # None
      /\ users' = [users EXCEPT ![h.chat].pointer = SkipDone(u.tasks, u.pointer)]
      /\ handlers' = [handlers EXCEPT
                        ![id].pc = IF CanAcquire THEN "coach_gpt" ELSE "coach_sema",
                        ![id].task = NextTaskId(u)]
      /\ inflight' = IF CanAcquire THEN inflight + 1 ELSE inflight
      /\ waiters' = IF CanAcquire THEN waiters ELSE Append(waiters, HRef(id))
      /\ sent' = Msg(h.chat, BeforeFocus(h.pc), None)
      /\ resp' = NoResp
      /\ UNCHANGED <<timers, nEvents, nextId, prevDone, raw, built, keys, tick, v2>>

\* the send a gpt call of a handler is followed by
SendPc(pc) ==
  CASE pc = "ack_gpt"   -> "send_ack"
    [] pc = "coach_gpt" -> "send_coach"
    [] pc = "stuck_gpt" -> "send_stuck"

\* gpt returns the text: the slot is given back, suspended at the send
HGptReturn(id) ==
  LET h == handlers[id] IN
  /\ h.pc \in {"ack_gpt", "coach_gpt", "stuck_gpt"}
  /\ handlers' = [WakeH(handlers) EXCEPT ![id].pc = SendPc(h.pc)]
  /\ timers' = WakeT(timers)
  /\ inflight' = RelInflight
  /\ waiters' = RelWaiters
  /\ sent' = NoMsg
  /\ resp' = NoResp
  /\ UNCHANGED <<users, nEvents, nextId, prevDone, raw, built, keys, tick, v2>>

\* start_focus after the coach message went out: the reminder is armed and stored
ArmReminder(c, tid) ==
  /\ timers' = Append(timers, [chat |-> c, tid |-> tid, pc |-> "sleep", cancel |-> FALSE])
  /\ users' = [users EXCEPT ![c].reminder = Len(timers) + 1]

HSendCoach(id) ==
  LET h == handlers[id] IN
  /\ h.pc = "send_coach"
  /\ ArmReminder(h.chat, h.task)
  /\ sent' = Msg(h.chat, "coach", h.task)
  /\ Finish(id, "ok", "none")
  /\ handlers' = Without(handlers, id)
  /\ UNCHANGED <<nEvents, nextId, inflight, waiters, raw, built, keys, tick, v2>>

\* the message the last send of a handler delivers
LastMsg(pc) ==
  CASE pc = "send_complete" -> "complete"
    [] pc = "send_stuck"    -> "stuck"
    [] pc = "send_start"    -> "welcome"
    [] pc = "send_fallback" -> "fallback"

\* the last send of a handler went out: return {"ok": True}
HSendLast(id) ==
  LET h == handlers[id] IN
  /\ h.pc \in {"send_complete", "send_stuck", "send_start", "send_fallback"}
  /\ sent' = Msg(h.chat, LastMsg(h.pc), h.task)
  /\ Finish(id, "ok", "none")
  /\ handlers' = Without(handlers, id)
  /\ UNCHANGED <<users, timers, nEvents, nextId, inflight, waiters, raw, built, keys, tick, v2>>

\* the awaited Telegram call raises: nothing in the handler catches it
HSendFails(id) ==
  LET h == handlers[id] IN
  /\ h.pc \in {"answer", "send_marked", "send_ack", "send_coach", "send_complete",
               "send_stuck", "send_start", "send_fallback"}
  /\ Finish(id, "error", "send")
  /\ handlers' = Without(handlers, id)
  /\ sent' = NoMsg
  /\ UNCHANGED <<users, timers, nEvents, nextId, inflight, waiters, raw, built, keys, tick, v2>>

\* the awaited completion request raises: the slot is given back, nothing catches it
HGptFails(id) ==
  LET h == handlers[id] IN
  /\ h.pc \in {"ack_gpt", "coach_gpt", "stuck_gpt"}
  /\ Finish(id, "error", "gpt")
  /\ handlers' = Without(WakeH(handlers), id)
  /\ timers' = WakeT(timers)
  /\ inflight' = RelInflight
  /\ waiters' = RelWaiters
  /\ sent' = NoMsg
  /\ UNCHANGED <<users, nEvents, nextId, raw, built, keys, tick, v2>>

-----------------------------------------------------------------------------
(* remind_loop: one action per resumption.                                 *)

Quiet == sent' = NoMsg /\ resp' = NoResp

\* the re-check after the sleep
Recheck(u, tid) ==
  LET k == IndexOf(u.tasks, tid, 1) IN
  u.has /\ k # 0 /\ ~u.tasks[k].done

\* the sleep is over and the task is gone or done: the loop returns
TReturn(i) ==
  LET t == timers[i] IN
  /\ t.pc = "sleep" /\ ~t.cancel
  /\ ~Recheck(users[t.chat], t.tid)
  /\ timers' = [timers EXCEPT ![i].pc = "returned"]
  /\ Quiet
  /\ UNCHANGED <<users, handlers, nEvents, nextId, inflight, waiters, prevDone, raw, built, keys, tick, v2>>

\* the sleep is over and the task is open: suspended in gpt("remind", ...)
TFire(i) ==
  LET t == timers[i] IN
  /\ t.pc = "sleep" /\ ~t.cancel
  /\ Recheck(users[t.chat], t.tid)
  /\ timers' = [timers EXCEPT ![i].pc = IF CanAcquire THEN "gpt" ELSE "sema"]
  /\ inflight' = IF CanAcquire THEN inflight + 1 ELSE inflight
  /\ waiters' = IF CanAcquire THEN waiters ELSE Append(waiters, TRef(i))
  /\ Quiet
  /\ UNCHANGED <<users, handlers, nEvents, nextId, prevDone, raw, built, keys, tick, v2>>

\* gpt returns the nudge: the slot is given back, suspended at the send
TGptReturn(i) ==
  LET t == timers[i] IN
  /\ t.pc = "gpt" /\ ~t.cancel
  /\ timers' = [WakeT(timers) EXCEPT ![i].pc = "send"]
  /\ handlers' = WakeH(handlers)
  /\ inflight' = RelInflight
  /\ waiters' = RelWaiters
  /\ Quiet
  /\ UNCHANGED <<users, nEvents, nextId, prevDone, raw, built, keys, tick, v2>>

\* a reminder that ends after its first nudge instead of sleeping again
TSendOnce(i) ==
  LET t == timers[i] IN
  /\ t.pc = "send" /\ ~t.cancel
  /\ timers' = [timers EXCEPT ![i].pc = "returned"]
  /\ sent' = Msg(t.chat, "remind", t.tid)
  /\ resp' = NoResp
  /\ UNCHANGED <<users, handlers, nEvents, nextId, inflight, waiters, prevDone, raw, built, keys, tick, v2>>

\* the nudge went out: back to the sleep
TSendReturn(i) ==
  LET t == timers[i] IN
  /\ t.pc = "send" /\ ~t.cancel
  /\ timers' = [timers EXCEPT ![i].pc = "sleep"]
  /\ sent' = Msg(t.chat, "remind", t.tid)
  /\ resp' = NoResp
  /\ UNCHANGED <<users, handlers, nEvents, nextId, inflight, waiters, prevDone, raw, built, keys, tick, v2>>

\* where a firing whose gpt call or send raised leaves the loop: nothing in
\* remind_loop catches the exception, so the task ends with it
AfterFailure == "failed"

\* the completion request of a firing raises
TGptFails(i) ==
  LET t == timers[i] IN
  /\ t.pc = "gpt" /\ ~t.cancel
  /\ timers' = [WakeT(timers) EXCEPT ![i].pc = AfterFailure]
  /\ handlers' = WakeH(handlers)
  /\ inflight' = RelInflight
  /\ waiters' = RelWaiters
  /\ Quiet
  /\ UNCHANGED <<users, nEvents, nextId, prevDone, raw, built, keys, tick, v2>>

\* the send of a firing raises
TSendFails(i) ==
  LET t == timers[i] IN
  /\ t.pc = "send" /\ ~t.cancel
  /\ timers' = [timers EXCEPT ![i].pc = AfterFailure]
  /\ Quiet
  /\ UNCHANGED <<users, handlers, nEvents, nextId, inflight, waiters, prevDone, raw, built, keys, tick, v2>>

\* a cancelled task is resumed with CancelledError at its await and ends;
\* inside async with llm_sema the slot is given back on the way out
TCancelled(i) ==
  LET t    == timers[i]
      held == t.pc = "gpt"
  IN  /\ t.pc \in Awaiting /\ t.cancel
      /\ timers' = [(IF held THEN WakeT(timers) ELSE timers) EXCEPT
                      ![i].pc = "cancelled", ![i].cancel = FALSE]
      /\ handlers' = IF held THEN WakeH(handlers) ELSE handlers
      /\ inflight' = IF held THEN RelInflight ELSE inflight
      /\ waiters' = IF held THEN RelWaiters ELSE waiters
      /\ Quiet
      /\ UNCHANGED <<users, nEvents, nextId, prevDone, raw, built, keys, tick, v2>>

-----------------------------------------------------------------------------
(* The event loop.                                                         *)

Actions == {"done", "stuck", "noop"}

\* the task ids on the keyboards sent to a chat: the coach message is the
\* first to carry a task's buttons, and its reminder is armed with it
Shown(c) == {timers[i].tid : i \in {j \in DOMAIN timers : timers[j].chat = c}}

\* the other task ids handed out so far, which no keyboard of the chat carries
NotShown(c) == (1..(nextId - 1)) \ Shown(c)

Next ==
  \/ \E c \in Chats : WebhookBadPayload(c)
  \/ \E c \in Chats : WebhookNoText(c)
  \/ \E c \in Chats, a \in Actions :
       \E tid \in Shown(c) \cup {None} : WebhookCallback(c, a, tid)
  \/ \E c \in Chats, m \in MsgTexts : WebhookStart(c, m)
  \/ \E c \in Chats, m \in MsgTexts : WebhookGoals(c, m)
  \/ \E c \in Chats, m \in MsgTexts : WebhookOther(c, m)
  \/ \E id \in DOMAIN handlers : HAnswerNoop(id)
  \/ \E id \in DOMAIN handlers : HNoSession(id)
  \/ \E id \in DOMAIN handlers : HNoTask(id)
  \/ \E id \in DOMAIN handlers : HMarkDone(id)
  \/ \E id \in DOMAIN handlers : HStuck(id)
  \/ \E id \in DOMAIN handlers : HFocusNone(id)
  \/ \E id \in DOMAIN handlers : HFocusTask(id)
  \/ \E id \in DOMAIN handlers : HGptReturn(id)
  \/ \E id \in DOMAIN handlers : HSendCoach(id)
  \/ \E id \in DOMAIN handlers : HSendLast(id)
  \/ \E id \in DOMAIN handlers : HSendFails(id)
  \/ \E id \in DOMAIN handlers : HGptFails(id)
  \/ \E i \in DOMAIN timers : TReturn(i)
  \/ \E i \in DOMAIN timers : TFire(i)
  \/ \E i \in DOMAIN timers : TGptReturn(i)
  \/ \E i \in DOMAIN timers : TSendReturn(i)
  \/ \E i \in DOMAIN timers : TGptFails(i)
  \/ \E i \in DOMAIN timers : TSendFails(i)
  \/ \E i \in DOMAIN timers : TCancelled(i)


\* callbacks carry the ids of the chat's keyboards, or an id the bot never sent
Spec == Init /\ [][Next]_vars

\* callbacks carry any id: done and stuck arrive for any task, in any order
NextAny ==
  \/ Next
  \/ \E c \in Chats, a \in Actions :
       \E tid \in NotShown(c) : WebhookCallback(c, a, tid)

SpecAny == Init /\ [][NextAny]_vars

-----------------------------------------------------------------------------
(* The event loop when the completion request and the Telegram calls never  *)
(* fail: every coroutine whose await has completed is resumed.              *)

\* the resumptions of webhook handler id
HStep(id) ==
  /\ id \in DOMAIN handlers
  /\ \/ HAnswerNoop(id)
     \/ HNoSession(id)
     \/ HNoTask(id)
     \/ HMarkDone(id)
     \/ HStuck(id)
     \/ HFocusNone(id)
     \/ HFocusTask(id)
     \/ HGptReturn(id)
     \/ HSendCoach(id)
     \/ HSendLast(id)

\* the resumptions of remind_loop task i
TStep(i) ==
  /\ i \in DOMAIN timers
  /\ \/ TReturn(i)
     \/ TFire(i)
     \/ TGptReturn(i)
     \/ TSendReturn(i)
     \/ TCancelled(i)

NextLive ==
  \/ \E c \in Chats : WebhookBadPayload(c)
  \/ \E c \in Chats : WebhookNoText(c)
  \/ \E c \in Chats, a \in Actions :
       \E tid \in Shown(c) \cup {None} : WebhookCallback(c, a, tid)
  \/ \E c \in Chats, m \in MsgTexts : WebhookStart(c, m)
  \/ \E c \in Chats, m \in MsgTexts : WebhookGoals(c, m)
  \/ \E c \in Chats, m \in MsgTexts : WebhookOther(c, m)
  \/ \E id \in 1..MaxEvents : HStep(id)
  \/ \E i \in 1..MaxEvents : TStep(i)

\* a handler arms at most one reminder, so there are at most MaxEvents timers
SpecLive ==
  /\ Init /\ [][NextLive]_vars
  /\ \A id \in 1..MaxEvents : WF_vars(HStep(id))
  /\ \A i \in 1..MaxEvents : WF_vars(TStep(i))

-----------------------------------------------------------------------------
(* llm_sema under load: a chat whose goal list has been handled (its first  *)
(* task coached, the reminder asleep) presses Stuck and Done while the      *)
(* reminder fires, so that more than LlmSlots coroutines ask for a text;    *)
(* every request and every send succeeds.                                   *)

GoalsText == <<SP, "a", NL, SP, NL, "b", NL>>

\* the state after one goal list has been handled to the end
InitSema ==
  LET q == BuildQueue(Strip(GoalsText), 1) IN
  /\ users = [c \in AllChats |->
                IF c = 1 THEN [has |-> TRUE, tasks |-> q, pointer |-> 0, reminder |-> 1]
                ELSE NoSession]
  /\ timers = <<[chat |-> 1, tid |-> q[1].id, pc |-> "sleep", cancel |-> FALSE]>>
  /\ handlers = <<>>
  /\ nEvents = 0
  /\ nextId = Len(q) + 1
  /\ inflight = 0
  /\ waiters = <<>>
  /\ sent = Msg(1, "coach", q[1].id)
  /\ resp = NoResp
  /\ prevDone = NoPrev
  /\ raw = <<>>
  /\ built = FALSE
  /\ keys = <<1>>
  /\ tick = NoTick
  /\ v2 = NoV2

\* a callback button of a keyboard the chat has: suspended at answer_callback_query
SemaCallback(c, action, tid) ==
  /\ nEvents < MaxCalls
  /\ nEvents' = nEvents + 1
  /\ prevDone' = NoPrev
  /\ sent' = NoMsg
  /\ handlers' = ((nEvents + 1) :> Frame(action, c, tid, "answer")) @@ Joined
  /\ resp' = NoResp
  /\ UNCHANGED <<users, timers, nextId, inflight, waiters, raw, built, keys, tick, v2>>

NextSema ==
  \/ \E c \in Chats, a \in {"done", "stuck"} :
       \E tid \in Shown(c) : SemaCallback(c, a, tid)
  \/ \E id \in DOMAIN handlers : HMarkDone(id)
  \/ \E id \in DOMAIN handlers : HStuck(id)
  \/ \E id \in DOMAIN handlers : HFocusNone(id)
  \/ \E id \in DOMAIN handlers : HFocusTask(id)
  \/ \E id \in DOMAIN handlers : HGptReturn(id)
  \/ \E id \in DOMAIN handlers : HSendCoach(id)
  \/ \E id \in DOMAIN handlers : HSendLast(id)
  \/ \E i \in DOMAIN timers : TReturn(i)
  \/ \E i \in DOMAIN timers : TFire(i)
  \/ \E i \in DOMAIN timers : TGptReturn(i)
  \/ \E i \in DOMAIN timers : TSendReturn(i)
  \/ \E i \in DOMAIN timers : TCancelled(i)

SpecSema == InitSema /\ [][NextSema]_vars

-----------------------------------------------------------------------------
(* morning_prompt, the daily job, next to the webhook handlers: "/start" and *)
(* other texts come from every chat, goal lists from the chats of Chats;    *)
(* every request and every send succeeds.                                   *)

\* next() on the iterator of users.keys(): a dict whose size has changed since
\* the iterator was made raises RuntimeError, before the end is looked at
TickNext(t) ==
  IF Len(keys) # t.size THEN [t EXCEPT !.pc = "error"]
  ELSE IF t.pos = t.size THEN [t EXCEPT !.pc = "done"]
  ELSE [t EXCEPT !.pc = "send", !.pos = t.pos + 1]

\* the job starts: the iterator is made and asked for the first key
TickStart ==
  /\ tick.pc = "idle"
  /\ tick' = TickNext([NoTick EXCEPT !.size = Len(keys)])
  /\ Quiet
  /\ UNCHANGED <<users, timers, handlers, nEvents, nextId, inflight, waiters, prevDone,
                 raw, built, keys, v2>>

\* the prompt went out: the loop asks for the next key
TickSendReturn ==
  LET c == keys[tick.pos] IN
  /\ tick.pc = "send"
  /\ tick' = TickNext([tick EXCEPT !.prompted = @ \cup {c}])
  /\ sent' = Msg(c, "morning", None)
  /\ resp' = NoResp
  /\ UNCHANGED <<users, timers, handlers, nEvents, nextId, inflight, waiters, prevDone,
                 raw, built, keys, v2>>

NextTick ==
  \/ TickStart
  \/ TickSendReturn
  \/ \E c \in AllChats, m \in MsgTexts : WebhookStart(c, m)
  \/ \E c \in Chats, m \in MsgTexts : WebhookGoals(c, m)
  \/ \E c \in AllChats, m \in MsgTexts : WebhookOther(c, m)
  \/ \E id \in 1..MaxEvents : HStep(id)
  \/ \E i \in 1..MaxEvents : TStep(i)

SpecTick == Init /\ [][NextTick]_vars

-----------------------------------------------------------------------------
(* The queue builder on its own: add_tasks_from_morning on any raw text.   *)

Alphabet == {"a", SP, NL}

RawTexts == UNION {[1..n -> Alphabet] : n \in 0..MaxRawLen}

InitQB ==
  /\ users = [c \in AllChats |-> IF c \in Chats THEN NewSession ELSE NoSession]
  /\ timers = <<>>
  /\ handlers = <<>>
  /\ nEvents = 0
  /\ nextId = 1
  /\ inflight = 0
  /\ waiters = <<>>
  /\ sent = NoMsg
  /\ resp = NoResp
  /\ prevDone = NoPrev
  /\ raw \in RawTexts
  /\ built = FALSE
  /\ keys \in {k \in [1..Cardinality(Chats) -> Chats] : \A c \in Chats : \E j \in DOMAIN k : k[j] = c}
  /\ tick = NoTick
  /\ v2 = NoV2

QBuild(c) ==
  /\ ~built
  /\ built' = TRUE
  /\ AddTasksFromMorning(c, raw)
  /\ keys' = Keys(c)
  /\ UNCHANGED <<handlers, nEvents, inflight, waiters, sent, resp, prevDone, raw, tick, v2>>

NextQB == \E c \in Chats : QBuild(c)

SpecQB == InitQB /\ [][NextQB]_vars

-----------------------------------------------------------------------------
(* The webhook on any message text over the alphabet: the text is stripped  *)
(* and classified, and a goal list is handed to add_tasks_from_morning.     *)

\* update.message.text is falsy when it is empty
NextGoal ==
  \/ \E c \in Chats : raw = <<>> /\ WebhookNoText(c)
  \/ \E c \in Chats : raw # <<>> /\ WebhookGoals(c, raw)
  \/ \E c \in Chats : raw # <<>> /\ WebhookOther(c, raw)

SpecGoal == InitQB /\ [][NextGoal]_vars

-----------------------------------------------------------------------------
(* The synchronous session operations on their own: add_tasks_from_morning, *)
(* mark_done and next_task contain no await, so every run of the handlers   *)
(* applies them one after another in some order; here in any order, for any *)
(* task of the queue.                                                       *)

PtrTexts ==
  { <<"a", NL, "b">>,
    <<"a", NL, NL, "b", SP, NL, SP, "c">>,
    <<"a", NL, "b", NL, "c", NL, "d">> }

PSubmit(c, m) ==
  /\ nEvents < MaxSubmits
  /\ nEvents' = nEvents + 1
  /\ IsMorningInput(Strip(m))
  /\ AddTasksFromMorning(c, Strip(m))
  /\ keys' = Keys(c)
  /\ UNCHANGED <<handlers, inflight, waiters, sent, resp, prevDone, raw, built, tick, v2>>

PMarkDone(c, tid) ==
  /\ users[c].has
  /\ HasTask(users[c], tid)
  /\ MarkDone(c, IndexOf(users[c].tasks, tid, 1))
  /\ UNCHANGED <<handlers, nEvents, nextId, inflight, waiters, sent, resp, prevDone,
                 raw, built, keys, tick, v2>>

\* next_task(chat_id): the stored pointer is left where the loop stopped
PNextTask(c) ==
  /\ users[c].has
  /\ users' = [users EXCEPT ![c].pointer = SkipDone(users[c].tasks, users[c].pointer)]
  /\ UNCHANGED <<timers, handlers, nEvents, nextId, inflight, waiters, sent, resp,
                 prevDone, raw, built, keys, tick, v2>>

NextPtr ==
  \/ \E c \in Chats, m \in PtrTexts : PSubmit(c, m)
  \/ \E c \in Chats, tid \in 1..(nextId - 1) : PMarkDone(c, tid)
  \/ \E c \in Chats : PNextTask(c)

SpecPtr == Init /\ [][NextPtr]_vars

-----------------------------------------------------------------------------
(* WiggleBot v0.2 (src/main_v2.py): one task per message, closed by a       *)
(* "done" reply, with one reminder_loop per task in active_reminders.       *)
(* coach_reply is one suspension point: a coroutine waiting for llm_sema     *)
(* and one inside the request are resumed, or cancelled, the same way.      *)

V2Texts ==
  { <<"/", "S", "t", "a", "r", "t", NL>>,
    <<SP, "d", "o", "n", "e">>,
    <<"s", "t", "u", "c", "k">>,
    <<"h", "i">> }

\* {"done", "finished"}: the replies that close a task
DoneWords == { <<"d", "o", "n", "e">>, <<"f", "i", "n", "i", "s", "h", "e", "d">> }

\* the open tasks of a chat, and the first of them in dict order
OpenOf(c) ==
  {tid \in DOMAIN v2.tasks : v2.tasks[tid].chat_id = c /\ ~v2.tasks[tid].done}

FirstOpenOf(c) == CHOOSE tid \in OpenOf(c) : \A o \in OpenOf(c) : tid <= o

V2Frame(kind, c, tid, pc) == [kind |-> kind, chat |-> c, tid |-> tid, pc |-> pc]

\* a webhook event is taken in and its handler runs to its first await
V2Begin(frame, tasks2, rems, loops2) ==
  /\ v2.n < MaxMessages
  /\ v2' = [v2 EXCEPT !.n = @ + 1,
                       !.handlers = ((v2.n + 1) :> frame) @@ @,
                       !.tasks = tasks2,
                       !.active_reminders = rems,
                       !.loops = loops2,
                       !.sent = NoMsg]
  /\ UNCHANGED v3vars

\* an update without a message text
V2NoText ==
  /\ v2.n < MaxMessages
  /\ v2' = [v2 EXCEPT !.n = @ + 1, !.sent = NoMsg]
  /\ UNCHANGED v3vars

\* "/start": suspended at the greeting's send
V2Start(c, m) ==
  /\ Lower(Strip(m)) = <<"/", "s", "t", "a", "r", "t">>
  /\ V2Begin(V2Frame("start", c, None, "send"), v2.tasks, v2.active_reminders, v2.loops)

\* reminder.cancel() on the entry popped for a task, if there is one
V2Cancel(loops2, rems, tid) ==
  IF tid \in rems /\ loops2[tid].pc \in {"sleep", "gpt", "send"}
  THEN [loops2 EXCEPT ![tid].cancel = TRUE] ELSE loops2

\* "done": the chat's first open task is closed, its entry popped from
\* active_reminders and cancelled; suspended at the send of the reply
V2Done(c, m) ==
  /\ Lower(Strip(m)) \in DoneWords
  /\ IF OpenOf(c) # {}
     THEN LET tid == FirstOpenOf(c) IN
          V2Begin(V2Frame("done", c, tid, "send"),
                  [v2.tasks EXCEPT ![tid].done = TRUE],
                  v2.active_reminders \ {tid},
                  V2Cancel(v2.loops, v2.active_reminders, tid))
     ELSE V2Begin(V2Frame("done", c, None, "send"),
                  v2.tasks, v2.active_reminders, v2.loops)

\* "stuck": a tip for the chat's first open task, or the hint that there is none
V2Stuck(c, m) ==
  /\ Lower(Strip(m)) = <<"s", "t", "u", "c", "k">>
  /\ IF OpenOf(c) # {}
     THEN V2Begin(V2Frame("stuck", c, FirstOpenOf(c), "gpt"),
                  v2.tasks, v2.active_reminders, v2.loops)
     ELSE V2Begin(V2Frame("stuck", c, None, "send"),
                  v2.tasks, v2.active_reminders, v2.loops)

\* any other text is a new task: it is stored, then suspended in coach_reply("ack")
V2NewTask(c, m) ==
  LET text == Lower(Strip(m)) IN
  /\ text # <<"/", "s", "t", "a", "r", "t">>
  /\ text \notin DoneWords
  /\ text # <<"s", "t", "u", "c", "k">>
  /\ V2Begin(V2Frame("new", c, Len(v2.tasks) + 1, "gpt"),
             Append(v2.tasks, [chat_id |-> c, done |-> FALSE]),
             v2.active_reminders,
             Append(v2.loops, [pc |-> "none", cancel |-> FALSE]))

\* coach_reply returns in a handler: suspended at the send
V2HGptReturn(id) ==
  /\ v2.handlers[id].pc = "gpt"
  /\ v2' = [v2 EXCEPT !.handlers[id].pc = "send", !.sent = NoMsg]
  /\ UNCHANGED v3vars

\* the send of the new-task handler returns: the reminder_loop is created and
\* stored in active_reminders
V2HArm(id) ==
  LET h == v2.handlers[id] IN
  /\ h.pc = "send" /\ h.kind = "new"
  /\ v2' = [v2 EXCEPT !.handlers = Without(@, id),
                       !.loops[h.tid] = [pc |-> "sleep", cancel |-> FALSE],
                       !.active_reminders = @ \cup {h.tid},
                       !.sent = Msg(h.chat, "ack", h.tid)]
  /\ UNCHANGED v3vars

\* the last send of any other handler returns
V2HSendLast(id) ==
  LET h == v2.handlers[id] IN
  /\ h.pc = "send" /\ h.kind # "new"
  /\ v2' = [v2 EXCEPT !.handlers = Without(@, id),
                       !.sent = Msg(h.chat, h.kind, h.tid)]
  /\ UNCHANGED v3vars

\* coach_reply or the send raises in a handler, which ends with the exception
V2HFails(id) ==
  /\ v2.handlers[id].pc \in {"gpt", "send"}
  /\ v2' = [v2 EXCEPT !.handlers = Without(@, id), !.sent = NoMsg]
  /\ UNCHANGED v3vars

V2Loop(tid, pc) ==
  /\ v2' = [v2 EXCEPT !.loops[tid].pc = pc, !.sent = NoMsg]
  /\ UNCHANGED v3vars

\* a reminder that fires whatever the task's state is
V2WakeBlind(tid) ==
  LET l == v2.loops[tid] IN
  /\ l.pc = "sleep" /\ ~l.cancel
  /\ V2Loop(tid, "gpt")

\* reminder_loop after its sleep: break when the task is done, else
\* suspended in coach_reply("remind")
V2Wake(tid) ==
  LET l == v2.loops[tid] IN
  /\ l.pc = "sleep" /\ ~l.cancel
  /\ V2Loop(tid, IF v2.tasks[tid].done THEN "ended" ELSE "gpt")

\* coach_reply returns in a reminder: suspended at the send
V2LGptReturn(tid) ==
  LET l == v2.loops[tid] IN
  /\ l.pc = "gpt" /\ ~l.cancel
  /\ V2Loop(tid, "send")

\* the reminder went out: back to the sleep
V2LSendReturn(tid) ==
  LET l == v2.loops[tid] IN
  /\ l.pc = "send" /\ ~l.cancel
  /\ v2' = [v2 EXCEPT !.loops[tid].pc = "sleep",
                       !.sent = Msg(v2.tasks[tid].chat_id, "remind", tid)]
  /\ UNCHANGED v3vars

\* coach_reply or the send raises in a reminder: except Exception, back to the sleep
V2LFails(tid) ==
  LET l == v2.loops[tid] IN
  /\ l.pc \in {"gpt", "send"} /\ ~l.cancel
  /\ V2Loop(tid, "sleep")

\* a cancelled reminder is resumed with CancelledError, which is no Exception
\* and ends the task
V2LCancelled(tid) ==
  LET l == v2.loops[tid] IN
  /\ l.pc \in {"sleep", "gpt", "send"} /\ l.cancel
  /\ v2' = [v2 EXCEPT !.loops[tid] = [pc |-> "cancelled", cancel |-> FALSE],
                       !.sent = NoMsg]
  /\ UNCHANGED v3vars

NextV2 ==
  \/ V2NoText
  \/ \E c \in Chats, m \in V2Texts : V2Start(c, m)
  \/ \E c \in Chats, m \in V2Texts : V2Done(c, m)
  \/ \E c \in Chats, m \in V2Texts : V2Stuck(c, m)
  \/ \E c \in Chats, m \in V2Texts : V2NewTask(c, m)
  \/ \E id \in DOMAIN v2.handlers : V2HGptReturn(id)
  \/ \E id \in DOMAIN v2.handlers : V2HArm(id)
  \/ \E id \in DOMAIN v2.handlers : V2HSendLast(id)
  \/ \E id \in DOMAIN v2.handlers : V2HFails(id)
  \/ \E tid \in DOMAIN v2.loops : V2Wake(tid)
  \/ \E tid \in DOMAIN v2.loops : V2LGptReturn(tid)
  \/ \E tid \in DOMAIN v2.loops : V2LSendReturn(tid)
  \/ \E tid \in DOMAIN v2.loops : V2LFails(tid)
  \/ \E tid \in DOMAIN v2.loops : V2LCancelled(tid)

SpecV2 == Init /\ [][NextV2]_vars

-----------------------------------------------------------------------------
(* Properties.                                                             *)

DoneIn(u, tid) == \E k \in 1..Len(u.tasks) : u.tasks[k].id = tid /\ u.tasks[k].done

\* C1: in every reachable state every chat has at most one live reminder
\* timer (created, neither cancelled nor ended).
C1_AtMostOneLiveTimer ==
  \A c \in Chats : Cardinality(LiveTimers(c)) <= 1

\* C2: a reminder nudge is only ever sent for a task of the chat's current
\* queue, never for a task of a queue that a goal submission has replaced.
C2_NoNudgeForReplacedTask ==
  sent.kind = "remind" => HasTask(users[sent.chat], sent.tid)

\* C3: no reminder nudge is sent for a task that is marked done.
C3_NoNudgeForDoneTask ==
  sent.kind = "remind" => ~DoneIn(users[sent.chat], sent.tid)

\* C4: when the handler of a done signal for the active task returns, no live
\* timer is left for the closed task and the stored handle is a live timer for
\* the next not-done task; with no not-done task left the chat has no live timer.
C4_DoneRearmsNext ==
  (resp.ev = "done" /\ resp.status = "ok" /\ resp.wasActive) =>
    LET u == users[resp.chat]
        a == ActiveId(u)
    IN  /\ \A i \in LiveTimers(resp.chat) : timers[i].tid # resp.tid
        /\ IF a # None
           THEN /\ u.reminder # None
                /\ Live(timers[u.reminder])
                /\ timers[u.reminder].tid = a
           ELSE LiveTimers(resp.chat) = {}

\* C5: the second of two done signals handled back-to-back for the same task
\* id changes no done flag, does not move the pointer and arms no timer.
C5_SecondDoneArmsNothing ==
  [][(\E id \in DOMAIN handlers : handlers[id].dup /\ handlers[id].alone) =>
       /\ Len(timers') = Len(timers)
       /\ \A c \in Chats : /\ users'[c].pointer = users[c].pointer
                           /\ users'[c].tasks = users[c].tasks]_vars

\* C6: a done or stuck signal whose task id (or chat) is not in the session
\* store ends normally: the handler raises no error.
C6_UnknownTaskIsBenign ==
  resp.cause \in {"no_task", "no_session"} => resp.status = "ok"

\* C7: every webhook event ends with the acknowledgement {"ok": true}.
C7_AlwaysAcknowledged ==
  resp # NoResp => resp.status = "ok"

\* C8: a firing whose coaching-text request or send fails leaves the reminder
\* timer alive: no remind_loop task is ever ended by the failure.
C8_FailedNudgeKeepsTimer ==
  \A i \in DOMAIN timers : timers[i].pc # "failed"

\* C9: for a submission with n >= 1 non-empty lines the queue has n tasks,
\* their texts are the trimmed non-empty lines in their order, the first is
\* top, the next up to three are mid and all further ones are extra.
NonSpace(k) == raw[k] \notin {SP, NL}
SameLine(j, k) == \A i \in j..(k - 1) : raw[i] # NL
LineStarts ==
  {k \in 1..Len(raw) :
     NonSpace(k) /\ \A j \in 1..(k - 1) : SameLine(j, k) => ~NonSpace(j)}
LineEnd(st) ==
  CHOOSE k \in st..Len(raw) :
    /\ NonSpace(k) /\ SameLine(st, k)
    /\ \A j \in (k + 1)..Len(raw) : SameLine(st, j) => ~NonSpace(j)
NthStart(m) ==
  CHOOSE k \in LineStarts : Cardinality({j \in LineStarts : j < k}) = m - 1
TierAt(m) == IF m = 1 THEN "top" ELSE IF m <= 4 THEN "mid" ELSE "extra"

C9_QueueBuilder ==
  built =>
    \A c \in Chats :
      LET q == users[c].tasks
          n == Cardinality(LineStarts)
      IN  n >= 1 =>
            /\ Len(q) = n
            /\ \A m \in 1..n :
                 /\ q[m].text = SubSeq(raw, NthStart(m), LineEnd(NthStart(m)))
                 /\ q[m].prio = TierAt(m)
                 /\ ~q[m].done
            /\ \A m1, m2 \in 1..n : m1 # m2 => q[m1].id # q[m2].id

\* a submission of five lines, some of them indented, has been queued
C9_Witness ==
  /\ built
  /\ \E c \in Chats : Len(users[c].tasks) = 5 /\ users[c].tasks[5].prio = "extra"

\* C10: next_task never returns a done task, and as long as the queue is not
\* replaced the stored pointer never decreases, whatever tasks are marked done
\* and in whatever order.
SameQueue(u, v) ==
  /\ Len(u.tasks) = Len(v.tasks)
  /\ \A k \in 1..Len(u.tasks) : u.tasks[k].id = v.tasks[k].id

C10_PointerAdvancer ==
  [][\A c \in Chats :
       /\ NextTaskId(users'[c]) # None => ~DoneIn(users'[c], NextTaskId(users'[c]))
       /\ SameQueue(users[c], users'[c]) =>
            /\ users'[c].pointer >= users[c].pointer
            /\ SkipDone(users'[c].tasks, users'[c].pointer)
                 >= SkipDone(users[c].tasks, users[c].pointer)]_vars

\* next_task has moved the pointer past two done tasks and returns the third
C10_Witness ==
  \E c \in Chats :
    LET u == users[c] IN
    /\ Len(u.tasks) = 3 /\ u.pointer = 2
    /\ u.tasks[1].done /\ u.tasks[2].done /\ ~u.tasks[3].done
    /\ NextTaskId(u) = u.tasks[3].id

\* the steps a handler of a stuck signal takes itself, from get_task on, for
\* a task that is in the queue and not done when get_task looks it up
StuckStep(id) ==
  LET h == handlers[id] IN
  /\ h.ev = "stuck"
  /\ \/ h.pc = "answer" /\ Recheck(users[h.chat], h.tid)
     \/ h.pc \in {"stuck_gpt", "send_stuck"}
  /\ (id \notin DOMAIN handlers' \/ handlers'[id].pc # h.pc)

\* C11: handling a stuck signal for a task that exists and is not done leaves
\* the session unchanged (done flags, pointer, stored reminder handle) and
\* neither cancels nor arms a reminder timer.
C11_StuckLeavesSession ==
  [][(\E id \in DOMAIN handlers : StuckStep(id)) =>
       /\ users' = users
       /\ Len(timers') = Len(timers)
       /\ \A i \in DOMAIN timers :
            /\ timers'[i].cancel = timers[i].cancel
            /\ Live(timers'[i]) <=> Live(timers[i])]_vars

\* a stuck tip went out for the open task whose reminder is still asleep
C11_Witness ==
  /\ resp.ev = "stuck" /\ resp.status = "ok"
  /\ sent.kind = "stuck"
  /\ Recheck(users[resp.chat], resp.tid)
  /\ users[resp.chat].reminder # None
  /\ Live(timers[users[resp.chat].reminder])

\* C12: a done signal for a not-done task that is not the chat's active task
\* marks that task done and leaves scheduling untouched: the active task stays
\* the same, the stored reminder handle is the same and no reminder timer is
\* cancelled or armed.
C12_DoneOfOtherTaskKeepsTimer ==
  [][\A id \in DOMAIN handlers :
       LET h == handlers[id]
           u == users[h.chat]
       IN  (/\ h.ev = "done" /\ h.pc = "answer"
            /\ id \in DOMAIN handlers' /\ handlers'[id].pc = "send_marked"
            /\ Recheck(u, h.tid) /\ ActiveId(u) # h.tid) =>
             /\ DoneIn(users'[h.chat], h.tid)
             /\ ActiveId(users'[h.chat]) = ActiveId(u)
             /\ users'[h.chat].reminder = u.reminder
             /\ Len(timers') = Len(timers)
             /\ \A i \in DOMAIN timers : timers'[i].cancel = timers[i].cancel]_vars

\* C13: when the completion request and the send never fail and every ready
\* coroutine is resumed, a task that is the chat's active task gets a reminder
\* nudge again and again for as long as it is active, that is, until it is
\* marked done or its queue is replaced.
IsActive(c, tid) == users[c].has /\ ActiveId(users[c]) = tid

Nudged(c, tid) == sent = Msg(c, "remind", tid)

Quiescent(c) == \A id \in DOMAIN handlers : handlers[id].chat # c

C14_QuiescentSession ==
  \A c \in Chats :
    (Quiescent(c) /\ users[c].has) =>
      LET u == users[c]
          a == ActiveId(u)
      IN  IF a # None
          THEN /\ LiveTimers(c) = {u.reminder}
               /\ timers[u.reminder].tid = a
          ELSE LiveTimers(c) = {}

\* C15: at every instant at most LlmSlots = 3 completion requests are in
\* flight, over all handlers and reminder timers; a coroutine waits for a slot
\* only while all slots are taken; and a reminder timer that has been
\* cancelled or has ended holds no slot and is not among the waiters.
HInGpt == {id \in DOMAIN handlers : handlers[id].pc \in {"ack_gpt", "coach_gpt", "stuck_gpt"}}
TInGpt == {i \in DOMAIN timers : timers[i].pc = "gpt"}
HInSema == {id \in DOMAIN handlers : handlers[id].pc \in {"ack_sema", "coach_sema", "stuck_sema"}}
TInSema == {i \in DOMAIN timers : timers[i].pc = "sema" /\ ~timers[i].cancel}
WaiterSet == {waiters[k] : k \in DOMAIN waiters}

C15_AtMostThreeInFlight ==
  /\ Cardinality(HInGpt) + Cardinality(TInGpt) <= 3
  /\ inflight = Cardinality(HInGpt) + Cardinality(TInGpt)
  /\ WaiterSet = {HRef(id) : id \in HInSema} \cup {TRef(i) : i \in TInSema}
  /\ Len(waiters) = Cardinality(WaiterSet)
  /\ waiters # <<>> => inflight = 3

\* three requests are in flight, a fourth waits, and a reminder that held or
\* awaited a slot has been cancelled and has ended
C15_Witness ==
  /\ inflight = 3
  /\ waiters # <<>>
  /\ \E i \in DOMAIN timers : timers[i].pc = "cancelled"

\* C16: a daily tick sends the morning prompt to every session known when the
\* tick starts, also when webhook handlers create sessions between its sends,
\* and no step of the tick changes a session (tasks, pointer, reminder).
KnownAtStart(t) == {keys[k] : k \in 1..t.size}

C16_TickPromptsEveryone ==
  [][tick' # tick =>
       /\ users' = users
       /\ tick'.pc \in {"done", "error"} => KnownAtStart(tick') \subseteq tick'.prompted]_vars

\* the steps that cancel the stored reminder handle of chat c: mark_done in
\* the handler of a done signal, add_tasks_from_morning in that of a goal list
CancelStep(c) ==
  \/ \E id \in DOMAIN handlers :
       /\ handlers[id].chat = c /\ handlers[id].pc = "answer"
       /\ id \in DOMAIN handlers' /\ handlers'[id].pc = "send_marked"
  \/ /\ nEvents' = nEvents + 1
     /\ (nEvents + 1) \in DOMAIN handlers'
     /\ handlers'[nEvents + 1].chat = c /\ handlers'[nEvents + 1].ev = "goals"

\* C17: when mark_done or add_tasks_from_morning cancels a reminder handle
\* that is already cancelled or whose timer has already ended, nothing
\* happens: no error is raised, the stored handle stays, and no timer (this
\* one or another) is changed.
C17_CancelOfEndedTimer ==
  [][\A c \in Chats :
       LET rem == users[c].reminder IN
       (rem # None /\ ~Live(timers[rem]) /\ CancelStep(c)) =>
         /\ timers' = timers
         /\ users'[c].reminder = rem
         /\ resp' = NoResp]_vars

\* mark_done has run in a done handler whose chat's stored reminder had
\* ended by itself before
C17_Witness ==
  \E id \in DOMAIN handlers :
    LET rem == users[handlers[id].chat].reminder IN
    /\ handlers[id].ev = "done" /\ handlers[id].pc = "send_marked"
    /\ rem # None
    /\ timers[rem].pc \in {"returned", "failed"}

\* C18: in main_v2 no reminder message is sent for a task that a "done" reply
\* has closed, also when the reply is handled before the task's reminder is
\* registered in active_reminders or while the reminder is in a firing.
C18_V2NoReminderAfterDone ==
  v2.sent.kind = "remind" => ~v2.tasks[v2.sent.tid].done

\* one task was closed while its handler still awaited the acknowledgement
\* (its reminder, created afterwards, broke out of its loop), another while
\* its reminder was in a firing (the reminder was cancelled there)
C18_Witness ==
  /\ \E tid \in DOMAIN v2.loops : v2.tasks[tid].done /\ v2.loops[tid].pc = "ended"
  /\ \E tid \in DOMAIN v2.loops : v2.tasks[tid].done /\ v2.loops[tid].pc = "cancelled"

\* C19: in every reachable state of every session the pointer lies between 0
\* and the length of the queue and every task below it is done, so that
\* next_task returns the first not-done task of the whole queue.
C19_PointerInvariant ==
  \A c \in Chats :
    LET u == users[c] IN
    /\ u.pointer <= Len(u.tasks)
    /\ \A k \in 1..u.pointer : u.tasks[k].done
    /\ NextTaskId(u) = ActiveId(u)

\* in a queue that replaced an earlier one, the third task was closed before
\* the second, and next_task has moved the pointer past the done first task
C19_Witness ==
  \E c \in Chats :
    LET u == users[c] IN
    /\ Len(u.tasks) >= 3 /\ u.tasks[1].id > 1
    /\ u.pointer = 1
    /\ u.tasks[1].done /\ ~u.tasks[2].done /\ u.tasks[3].done
    /\ NextTaskId(u) = u.tasks[2].id

\* C20: every message text the webhook takes for a goal list (its stripped
\* text has a line break) builds a queue of at least two tasks, so that right
\* after the submission the queue is not empty and has a not-done active task.
GoalsStep(c) ==
  /\ nEvents' = nEvents + 1
  /\ (nEvents + 1) \in DOMAIN handlers'
  /\ handlers'[nEvents + 1].chat = c /\ handlers'[nEvents + 1].ev = "goals"

C20_GoalListHasTwoTasks ==
  [][\A c \in Chats :
       GoalsStep(c) =>
         /\ Len(users'[c].tasks) >= 2
         /\ ActiveId(users'[c]) # None
         /\ NextTaskId(users'[c]) = users'[c].tasks[1].id
         /\ ~users'[c].tasks[1].done]_vars

\* a text with a blank first line, a blank line in the middle and spaces at
\* its end was taken for a goal list and became a queue of exactly two tasks
C20_Witness ==
  /\ raw # <<>> /\ raw[1] = NL /\ raw[Len(raw)] = SP
  /\ \E k \in 1..(Len(raw) - 1) : raw[k] = NL /\ raw[k + 1] = NL /\ k > 1
  /\ \E c \in Chats :
       /\ Len(users[c].tasks) = 2
       /\ \E id \in DOMAIN handlers : handlers[id].ev = "goals" /\ handlers[id].chat = c

====
